---- MODULE Spec2Model ----
(***************************************************************************)
(* Model of the reverse proxy in proxy/index.js: the Express middleware    *)
(* stack in registration order, the token, analysis and upload route       *)
(* handlers, the generic forwarding proxy, the health endpoint, and the    *)
(* temporary-file directory the upload handler stages files in.            *)
(*                                                                         *)
(* Two specifications are given.  Spec is the application as index.js      *)
(* registers it: a request is handled by the first layer of the stack      *)
(* that ends it.  HandlerSpec is the upload route handler (index.js        *)
(* 363-510) run on upload requests, with the steps of concurrent requests  *)
(* interleaved at its await points.  RequestSpec takes a single request    *)
(* to its end under weak fairness of the steps that follow an await, and   *)
(* CatchSpec gives the catch blocks of the token and analysis handlers     *)
(* every error object.                                                     *)
(***************************************************************************)
EXTENDS Naturals, Integers, Sequences, FiniteSets, TLC

(* ------------------------------ bounds -------------------------------- *)
\* number of requests in flight at once
NumReq == 2
\* most file parts under the `files` field of one upload
MaxParts == 2
\* most removals of a staged file by something other than the handler
MaxExternal == 1

Slots == 1..NumReq

(* --------------------------- request values --------------------------- *)
Absent == "<absent>"
NoAuth == <<>>
BearerAuth == <<"Bearer", "tok">>
BasicAuth == <<"Basic", "abc">>

StartsWithScheme(a) == Len(a) >= 2

\* String.prototype.startsWith('Bearer ') on a header value given as the
\* words separated by single spaces: the value has the scheme and a separator.
StartsWithBearer(a) == Len(a) >= 2 /\ a[1] = "Bearer"

\* !authHeader: the header is absent
NoHeader(a) == a = <<>>

\* JavaScript falsiness of a field value: undefined or ''
Falsy(x) == x = Absent \/ x = ""

TokenPath == <<"api", "token">>
AnalysisPath == <<"api", "analyze-competitors">>
UploadPath == <<"api", "upload-documents">>
GenericPath == <<"api", "foo", "bar">>
NestedPath == <<"api", "api", "v1">>
HealthPath == <<"health">>
OtherPath == <<"other">>

BaseReq == [method |-> "GET", path |-> HealthPath, auth |-> NoAuth,
            body |-> "none", username |-> Absent, password |-> Absent,
            query |-> Absent, nFiles |-> 0, other |-> FALSE, bad |-> "none",
            fileType |-> Absent]

FieldValues(v) == {Absent, "", v}

TokenRequests ==
    {[BaseReq EXCEPT !.method = "POST", !.path = TokenPath, !.body = "form",
                     !.username = u, !.password = p] :
        u \in FieldValues("alice"), p \in FieldValues("secret")}
    \cup {[BaseReq EXCEPT !.method = "POST", !.path = TokenPath, !.body = b,
                          !.username = "alice", !.password = "secret"] :
        b \in {"json", "badjson", "none"}}

AnalysisRequests ==
    {[BaseReq EXCEPT !.method = "POST", !.path = AnalysisPath,
                     !.auth = a, !.query = q] :
        a \in {NoAuth, BasicAuth, BearerAuth}, q \in FieldValues("q1")}

\* upload requests as the application receives them
AppUploadRequests ==
    {[BaseReq EXCEPT !.method = "POST", !.path = UploadPath, !.auth = a,
                     !.body = "multipart", !.nFiles = 1] :
        a \in {NoAuth, BearerAuth}}

GenericRequests ==
    {[BaseReq EXCEPT !.method = "GET", !.path = GenericPath, !.auth = a] :
        a \in {NoAuth, BearerAuth}}
    \cup {[BaseReq EXCEPT !.method = "POST", !.path = GenericPath,
                          !.auth = BearerAuth]}
    \cup {[BaseReq EXCEPT !.method = "POST", !.path = GenericPath,
                          !.body = "badjson"]}
    \cup {[BaseReq EXCEPT !.method = "POST", !.path = GenericPath,
                          !.auth = BearerAuth, !.body = "json",
                          !.query = "x=1"]}
    \cup {[BaseReq EXCEPT !.method = "POST", !.path = NestedPath,
                          !.body = "form"]}

PreflightRequests ==
    {[BaseReq EXCEPT !.method = "OPTIONS", !.path = p] :
        p \in {TokenPath, UploadPath, GenericPath}}
    \cup {[BaseReq EXCEPT !.method = "OPTIONS", !.path = GenericPath,
                          !.body = "badjson"]}

OtherRequests ==
    {[BaseReq EXCEPT !.method = m, !.path = p] :
        m \in {"GET"}, p \in {HealthPath, OtherPath}}
    \cup {[BaseReq EXCEPT !.method = "POST", !.path = HealthPath]}

AppRequests == TokenRequests \cup AnalysisRequests \cup AppUploadRequests
               \cup GenericRequests \cup PreflightRequests \cup OtherRequests

\* the multipart bodies given to the upload handler: nFiles valid parts under
\* `files`, possibly one valid part under another field, possibly a last part
\* the parser rejects (larger than maxFileSize, or empty)
UploadShapes ==
    {[nFiles |-> n, other |-> FALSE, bad |-> "none", fileType |-> Absent] :
        n \in 0..MaxParts}
    \cup {[nFiles |-> 1, other |-> FALSE, bad |-> "none",
           fileType |-> "business"]}
    \cup {[nFiles |-> 0, other |-> TRUE, bad |-> "none", fileType |-> Absent]}
    \cup {[nFiles |-> 1, other |-> FALSE, bad |-> b, fileType |-> Absent] :
            b \in {"huge", "empty"}}

HandlerUploadRequests ==
    {[BaseReq EXCEPT !.method = "POST", !.path = UploadPath, !.auth = NoAuth,
                     !.body = "multipart", !.nFiles = 1]}
    \cup {[BaseReq EXCEPT !.method = "POST", !.path = UploadPath,
                          !.auth = BearerAuth, !.body = "multipart",
                          !.nFiles = sh.nFiles, !.other = sh.other,
                          !.bad = sh.bad, !.fileType = sh.fileType] :
            sh \in UploadShapes}

(* --------------------------- backend outcomes ------------------------- *)
NetCodes == {"ECONNABORTED", "ECONNRESET", "ECONNREFUSED", "ETIMEDOUT",
             "ERR_NETWORK"}

\* what the single outbound call of a request ends in: a 2xx response, an
\* error response (axios rejects with error.response set), or a failure with
\* no response (error.code set)
Outcomes ==
    {[kind |-> "ok", status |-> s, code |-> "", detail |-> FALSE] :
        s \in {200, 201}}
    \cup {[kind |-> "err", status |-> 401, code |-> "ERR_BAD_REQUEST",
           detail |-> TRUE],
          [kind |-> "err", status |-> 500, code |-> "ERR_BAD_RESPONSE",
           detail |-> FALSE]}
    \cup {[kind |-> "net", status |-> 0, code |-> c, detail |-> FALSE] :
        c \in NetCodes}

NoOutcome == [kind |-> "none", status |-> 0, code |-> "", detail |-> FALSE]

\* what the axios.post of the upload handler ends in (the handler tells
\* apart a response, an error response and a failure without response)
UploadOutcomes ==
    {o \in Outcomes : o.status # 500
                      /\ o.code \notin {"ECONNABORTED", "ERR_NETWORK"}}

\* what a request forwarded by http-proxy ends in: a backend response, or a
\* socket error (ECONNABORTED and ERR_NETWORK are codes of axios only); the
\* proxy relays every response alike, so one success and one error response
\* are taken
ProxyOutcomes ==
    {o \in Outcomes : /\ o.code \notin {"ECONNABORTED", "ERR_NETWORK"}
                      /\ o.status \notin {201, 500}}

(* ---------------------------- CORS headers ---------------------------- *)
NoCors == [acao |-> "", methods |-> {}, allowHeaders |-> {}, creds |-> FALSE]

\* cors({origin:'*', methods, allowedHeaders, credentials:true, maxAge}) on a
\* request that is not a preflight: origin and credentials only
CorsSimple == [acao |-> "*", methods |-> {}, allowHeaders |-> {},
               creds |-> TRUE]

\* the same middleware answering an OPTIONS preflight
CorsPreflight ==
    [acao |-> "*", methods |-> {"GET", "POST", "PUT", "DELETE", "OPTIONS"},
     allowHeaders |-> {"Content-Type", "Authorization", "X-Requested-With"},
     creds |-> TRUE]

\* res.set({...}) in the token success path and in the upload handler
TokenCors == [acao |-> "*", methods |-> {"POST", "OPTIONS"},
              allowHeaders |-> {"Content-Type", "Authorization"},
              creds |-> TRUE]

UploadCors == TokenCors

\* res.set({...}) in the analysis handler, success and catch
AnalysisCors == [acao |-> "*", methods |-> {"GET", "POST", "OPTIONS"},
                 allowHeaders |-> {"Content-Type", "Authorization"},
                 creds |-> TRUE]

\* apiProxy.onProxyRes / apiProxy.onError
ProxyCors == CorsPreflight

NoRes == [status |-> 0, error |-> "", message |-> "", cors |-> NoCors]

Response(st, err, msg, c) ==
    [status |-> st, error |-> err, message |-> msg, cors |-> c]

\* the `error` value standing for a relayed backend body
Relayed == "<backend body>"
\* error.response.data.detail, and error.message
Detail == "<backend detail>"
RawMessage == "<error.message>"

(* ------------------------------- state -------------------------------- *)
VARIABLES
    pc,          \* per slot: where the request is
    req,         \* per slot: the inbound request
    res,         \* per slot: the response sent
    handledBy,   \* per slot: the layer that ended the request
    outbound,    \* per slot: the outbound requests made to the backend
    outcome,     \* per slot: what the outbound call ended in
    fs,          \* temp directory: the paths that exist
    staged,      \* per slot: the temp paths the parser created
    fileArray,   \* per slot: files.files, the paths under the `files` field
    parseFailed, \* per slot: form.parse rejected
    touched,     \* per slot: the temp paths the handler read or unlinked
    attempted,   \* per slot: the temp paths a cleanup loop went through
    unlinkCount, \* per path: successful unlinks by a handler
    unlinkErrors,\* unlinkSync calls that threw
    external     \* removals of staged files from outside the handler

vars == <<pc, req, res, handledBy, outbound, outcome, fs, staged, fileArray,
          parseFailed, touched, attempted, unlinkCount, unlinkErrors,
          external>>

fsVars == <<fs, staged, fileArray, parseFailed, touched, attempted,
            unlinkCount, unlinkErrors, external>>

Names == Slots \X (1..(MaxParts + 2))

Init ==
    /\ pc = [r \in Slots |-> "idle"]
    /\ req = [r \in Slots |-> BaseReq]
    /\ res = [r \in Slots |-> NoRes]
    /\ handledBy = [r \in Slots |-> ""]
    /\ outbound = [r \in Slots |-> <<>>]
    /\ outcome = [r \in Slots |-> NoOutcome]
    /\ fs = {}
    /\ staged = [r \in Slots |-> {}]
    /\ fileArray = [r \in Slots |-> <<>>]
    /\ parseFailed = [r \in Slots |-> FALSE]
    /\ touched = [r \in Slots |-> {}]
    /\ attempted = [r \in Slots |-> {}]
    /\ unlinkCount = [n \in Names |-> 0]
    /\ unlinkErrors = 0
    /\ external = 0

(* ----------------------- the middleware stack ------------------------- *)
\* app.use / app.post / app.get calls of index.js in registration order
Stack == <<"json", "urlencoded", "cors", "logger", "token", "analysis",
           "apiProxy", "health", "timeoutHandler", "upload">>

\* app.use('/api', ...): the path is under the mount point
UnderApi(p) == Len(p) >= 1 /\ p[1] = "api"

\* whether a layer ends the request (answers it, or fails it) instead of
\* passing it on with next()
Ends(layer, q) ==
    CASE layer = "json" -> q.body = "badjson"
      [] layer = "urlencoded" -> FALSE
      [] layer = "cors" -> q.method = "OPTIONS"
      [] layer = "logger" -> FALSE
      [] layer = "token" -> q.method = "POST" /\ q.path = TokenPath
      [] layer = "analysis" -> q.method = "POST" /\ q.path = AnalysisPath
      [] layer = "apiProxy" -> UnderApi(q.path)
      [] layer = "health" -> q.method = "GET" /\ q.path = HealthPath
      [] layer = "timeoutHandler" -> FALSE
      [] layer = "upload" -> q.method = "POST" /\ q.path = UploadPath

\* Express runs the layers in order: the first one that ends the request
FirstLayer(q) ==
    LET hits == {i \in 1..Len(Stack) : Ends(Stack[i], q)}
    IN  IF hits = {} THEN "finalhandler"
        ELSE Stack[CHOOSE i \in hits : \A j \in hits : i <= j]

\* req.body after express.json / express.urlencoded: the fields of a JSON or
\* form body, {} for anything else
ParsedBody(q) ==
    IF q.body \in {"form", "json"}
    THEN [username |-> q.username, password |-> q.password]
    ELSE [username |-> Absent, password |-> Absent]

\* the Content-Type header of an inbound request
ContentType(q) ==
    CASE q.body = "form" -> "application/x-www-form-urlencoded"
      [] q.body \in {"json", "badjson"} -> "application/json"
      [] q.body = "multipart" -> "multipart/form-data; boundary=inbound"
      [] OTHER -> Absent

\* formData.getHeaders(): the Content-Type of a new FormData, with the
\* boundary it generated
FreshMultipart == "multipart/form-data; boundary=generated"

\* fields.file_type ? fields.file_type[0] : 'competitor'
FileTypeField(q) == IF q.fileType = Absent THEN "competitor" ELSE q.fileType

\* what is left of the inbound body stream when a later layer reads it:
\* express.json (15) and express.urlencoded (16) run on every request and
\* read a body of their type to its end; any other body is not read
Drained == "<drained>"

\* the body http-proxy sends when it pipes the inbound stream to the backend
PipedBody(q) == IF q.body \in {"json", "form"} THEN Drained ELSE q.body

OutReq(m, p, qy, a, n, ct, ft, b) ==
    [method |-> m, path |-> p, query |-> qy, auth |-> a, nFiles |-> n,
     ctype |-> ct, fileType |-> ft, body |-> b]

Finish(r, q, layer, response) ==
    /\ pc' = [pc EXCEPT ![r] = "done"]
    /\ req' = [req EXCEPT ![r] = q]
    /\ res' = [res EXCEPT ![r] = response]
    /\ handledBy' = [handledBy EXCEPT ![r] = layer]

CallWithRetry(r, q, layer, where, out) ==
    /\ pc' = [pc EXCEPT ![r] = where]
    /\ req' = [req EXCEPT ![r] = q]
    /\ handledBy' = [handledBy EXCEPT ![r] = layer]
    /\ outbound' = [outbound EXCEPT ![r] = Append(Append(@, out), out)]
    /\ UNCHANGED res

\* the one call a handler makes to the backend: it is awaited, and nothing
\* in a catch block or in onError calls the backend again
Call(r, q, layer, where, out) ==
    /\ pc' = [pc EXCEPT ![r] = where]
    /\ req' = [req EXCEPT ![r] = q]
    /\ handledBy' = [handledBy EXCEPT ![r] = layer]
    /\ outbound' = [outbound EXCEPT ![r] = Append(@, out)]
    /\ UNCHANGED res

Settle(r, o, response) ==
    /\ pc' = [pc EXCEPT ![r] = "done"]
    /\ res' = [res EXCEPT ![r] = response]
    /\ outcome' = [outcome EXCEPT ![r] = o]
    /\ UNCHANGED <<req, handledBy, outbound>>

(* --------------------- body parser, CORS, fallbacks ------------------- *)
\* express.json() fails on a malformed JSON body and calls next(err): the
\* layers that are not error handlers are skipped, the error handler at
\* 354-360 passes the error on, and Express's final handler answers 400
JsonParseError(r, q) ==
    /\ pc[r] = "idle"
    /\ FirstLayer(q) = "json"
    /\ Finish(r, q, "json", Response(400, "<html error page>", "", NoCors))
    /\ UNCHANGED <<outbound, outcome, fsVars>>

\* the cors middleware answers an OPTIONS request itself
Preflight(r, q) ==
    /\ pc[r] = "idle"
    /\ FirstLayer(q) = "cors"
    /\ Finish(r, q, "cors", Response(204, "", "", CorsPreflight))
    /\ UNCHANGED <<outbound, outcome, fsVars>>

\* TARGET, the configured backend origin (11)
Target == "<TARGET>"

\* the object sent by the health endpoint (346-350)
HealthBody == [status |-> "ok", message |-> "Proxy server is running",
               target |-> Target]

HealthProbesBackend(r, q) ==
    /\ pc[r] = "idle"
    /\ FirstLayer(q) = "health"
    /\ Call(r, q, "health", "await_proxy",
            OutReq("GET", <<"health">>, Absent, NoAuth, 0, Absent, Absent,
                   "none"))
    /\ UNCHANGED <<outcome, fsVars>>

Health(r, q) ==
    /\ pc[r] = "idle"
    /\ FirstLayer(q) = "health"
    /\ Finish(r, q, "health", Response(200, "", HealthBody, CorsSimple))
    /\ UNCHANGED <<outbound, outcome, fsVars>>

\* no layer matches: Express's final handler answers 404
NotFound(r, q) ==
    /\ pc[r] = "idle"
    /\ FirstLayer(q) = "finalhandler"
    /\ Finish(r, q, "finalhandler",
              Response(404, "<html error page>", "", CorsSimple))
    /\ UNCHANGED <<outbound, outcome, fsVars>>

(* ------------------------ POST /api/token ----------------------------- *)
MissingCredentialsBoth(u, p) == Falsy(u) /\ Falsy(p)

\* if (!username || !password)
MissingCredentials(u, p) == Falsy(u) \/ Falsy(p)

TokenErrorNoRefused(o) ==
    IF o.kind = "err"
    THEN Response(o.status,
                  IF o.detail THEN Detail ELSE "Authentication failed",
                  RawMessage, CorsSimple)
    ELSE IF o.code = "ECONNABORTED"
    THEN Response(500, "Request timeout - backend server may be overloaded",
                  RawMessage, CorsSimple)
    ELSE Response(500, "Token request failed", RawMessage, CorsSimple)

TokenErrorRelay(o) ==
    IF o.kind = "err"
    THEN Response(o.status, Relayed, "", CorsSimple)
    ELSE IF o.code = "ECONNABORTED"
    THEN Response(500, "Request timeout - backend server may be overloaded",
                  RawMessage, CorsSimple)
    ELSE IF o.code = "ECONNREFUSED"
    THEN Response(500, "Could not connect to backend server", RawMessage,
                  CorsSimple)
    ELSE Response(500, "Token request failed", RawMessage, CorsSimple)

\* the catch block at 70-91
TokenError(o) ==
    IF o.kind = "err"
    THEN Response(o.status,
                  IF o.detail THEN Detail ELSE "Authentication failed",
                  RawMessage, CorsSimple)
    ELSE IF o.code = "ECONNABORTED"
    THEN Response(500, "Request timeout - backend server may be overloaded",
                  RawMessage, CorsSimple)
    ELSE IF o.code = "ECONNREFUSED"
    THEN Response(500, "Could not connect to backend server", RawMessage,
                  CorsSimple)
    ELSE Response(500, "Token request failed", RawMessage, CorsSimple)

\* the handler up to the await of the axios call
TokenHandler(r, q) ==
    /\ pc[r] = "idle"
    /\ FirstLayer(q) = "token"
    /\ LET b == ParsedBody(q)
       IN  IF MissingCredentials(b.username, b.password)
           THEN /\ Finish(r, q, "token",
                          Response(400, "Missing credentials", "", CorsSimple))
                /\ UNCHANGED outbound
           ELSE Call(r, q, "token", "await_token",
                     OutReq("POST", <<"token">>, Absent, NoAuth, 0,
                            "application/x-www-form-urlencoded", Absent,
                            "form"))
    /\ UNCHANGED <<outcome, fsVars>>

\* the axios call settles
TokenSettle(r, o) ==
    /\ pc[r] = "await_token"
    /\ Settle(r, o, IF o.kind = "ok"
                    THEN Response(200, Relayed, "", TokenCors)
                    ELSE TokenError(o))
    /\ UNCHANGED fsVars

(* ------------------ POST /api/analyze-competitors --------------------- *)
AnalysisErrorNoTimeout(o) ==
    IF o.kind = "err"
    THEN Response(o.status, "Analysis Failed",
                  IF o.detail THEN Detail ELSE "Backend error", AnalysisCors)
    ELSE IF o.code = "ECONNRESET"
    THEN Response(502, "Bad Gateway", "Connection to backend was reset",
                  AnalysisCors)
    ELSE Response(500, "Analysis Error", RawMessage, AnalysisCors)

MissingQueryUndefinedOnly(qy) == qy = Absent

\* if (!query)
MissingQuery(qy) == Falsy(qy)

AnalysisErrorNoReset(o) ==
    IF o.kind = "err"
    THEN Response(o.status, "Analysis Failed",
                  IF o.detail THEN Detail ELSE "Backend error", AnalysisCors)
    ELSE IF o.code = "ECONNABORTED"
    THEN Response(504, "Gateway Timeout", "Analysis took too long",
                  AnalysisCors)
    ELSE Response(500, "Analysis Error", RawMessage, AnalysisCors)

AnalysisErrorCodeFirst(o) ==
    IF o.code = "ECONNABORTED"
    THEN Response(504, "Gateway Timeout", "Analysis took too long",
                  AnalysisCors)
    ELSE IF o.code = "ECONNRESET"
    THEN Response(502, "Bad Gateway", "Connection to backend was reset",
                  AnalysisCors)
    ELSE IF o.kind = "err"
    THEN Response(o.status, "Analysis Failed",
                  IF o.detail THEN Detail ELSE "Backend error", AnalysisCors)
    ELSE Response(500, "Analysis Error", RawMessage, AnalysisCors)

\* the catch block at 290-330
AnalysisError(o) ==
    IF o.kind = "err"
    THEN Response(o.status, "Analysis Failed",
                  IF o.detail THEN Detail ELSE "Backend error", AnalysisCors)
    ELSE IF o.code = "ECONNABORTED"
    THEN Response(504, "Gateway Timeout", "Analysis took too long",
                  AnalysisCors)
    ELSE IF o.code = "ECONNRESET"
    THEN Response(502, "Bad Gateway", "Connection to backend was reset",
                  AnalysisCors)
    ELSE Response(500, "Analysis Error", RawMessage, AnalysisCors)

AnalysisHandler(r, q) ==
    /\ pc[r] = "idle"
    /\ FirstLayer(q) = "analysis"
    /\ IF NoHeader(q.auth) \/ ~StartsWithBearer(q.auth)
       THEN /\ Finish(r, q, "analysis",
                      Response(401, "Unauthorized",
                               "Missing or invalid authorization header",
                               CorsSimple))
            /\ UNCHANGED outbound
       ELSE IF MissingQuery(q.query)
       THEN /\ Finish(r, q, "analysis",
                      Response(400, "Bad Request", "Missing query parameter",
                               CorsSimple))
            /\ UNCHANGED outbound
       ELSE Call(r, q, "analysis", "await_analysis",
                 OutReq("POST", <<"analyze-competitors">>, q.query, q.auth, 0,
                        "application/json", Absent, "none"))
    /\ UNCHANGED <<outcome, fsVars>>

AnalysisSettle(r, o) ==
    /\ pc[r] = "await_analysis"
    /\ Settle(r, o, IF o.kind = "ok"
                    THEN Response(o.status, Relayed, "", AnalysisCors)
                    ELSE AnalysisError(o))
    /\ UNCHANGED fsVars

(* ------------------------ app.use('/api', apiProxy) ------------------- *)
PathRewriteGreedy(p) ==
    IF UnderApi(p)
    THEN IF UnderApi(Tail(p)) THEN Tail(Tail(p)) ELSE Tail(p)
    ELSE p

\* pathRewrite {'^/api': ''}
PathRewrite(p) == IF UnderApi(p) THEN Tail(p) ELSE p

ForwardedAuthDefault(a) == IF ~NoHeader(a) THEN a ELSE BearerAuth

\* onProxyReq (187-196): the Authorization header of the outbound request is
\* the inbound one when there is one; without one, a warning is logged
ForwardedAuth(a) == IF ~NoHeader(a) THEN a ELSE NoAuth

\* the proxy middleware forwards the request; onProxyReq copies Authorization
ApiProxy(r, q) ==
    /\ pc[r] = "idle"
    /\ FirstLayer(q) = "apiProxy"
    /\ Call(r, q, "apiProxy", "await_proxy",
            OutReq(q.method, PathRewrite(q.path), q.query,
                   ForwardedAuth(q.auth), q.nFiles, ContentType(q),
                   q.fileType, PipedBody(q)))
    /\ UNCHANGED <<outcome, fsVars>>

ProxyErrorSimpleCors(o) ==
    Response(500, "Proxy Error", RawMessage, CorsSimple)

\* apiProxy.onError (219-234)
ProxyError(o) == Response(500, "Proxy Error", RawMessage, ProxyCors)

\* onProxyRes relays the backend's response; onError answers 500
ApiProxySettle(r, o) ==
    /\ pc[r] = "await_proxy"
    /\ Settle(r, o, IF o.kind = "net"
                    THEN ProxyError(o)
                    ELSE Response(o.status, Relayed, "", ProxyCors))
    /\ UNCHANGED fsVars

(* --------------------------- the application -------------------------- *)
Next ==
    \E r \in Slots :
        \/ \E q \in AppRequests :
              \/ JsonParseError(r, q)
              \/ Preflight(r, q)
              \/ TokenHandler(r, q)
              \/ AnalysisHandler(r, q)
              \/ ApiProxy(r, q)
              \/ Health(r, q)
              \/ NotFound(r, q)
        \/ \E o \in Outcomes :
              \/ TokenSettle(r, o)
              \/ AnalysisSettle(r, o)
        \/ \E o \in ProxyOutcomes : ApiProxySettle(r, o)

Spec == Init /\ [][Next]_vars

(* -------------------- POST /api/upload-documents ---------------------- *)
Range(sq) == {sq[i] : i \in 1..Len(sq)}

TempNameFromPart(r, i) == <<1, i>>

\* the path formidable gives the i-th file part of request r: no `filename`
\* option is set, so the name is a freshly generated id, unique to the part
TempName(r, i) == <<r, i>>

ExistsAlways(f, dir) == TRUE

\* fs.existsSync(file.filepath)
ExistsSync(f, dir) == f \in dir

ErrorCleanupNone(arr) == <<>>

\* the files the loop at 454-463 (after a backend success) goes through
SuccessCleanup(arr) == arr

\* the files the loop at 472-480 (after a failed backend call) goes through
ErrorCleanup(arr) == arr

NoFilesFieldNever(arr) == FALSE

\* !(files && files.files): no part came under the `files` field
NoFilesField(arr) == arr = <<>>

\* the handler up to the await of form.parse: CORS headers, the
\* Authorization check, the parser and the temp directory
UploadEnter(r, q) ==
    /\ pc[r] = "idle"
    /\ Ends("upload", q)
    /\ IF NoHeader(q.auth)
       THEN Finish(r, q, "upload",
                   Response(401, "Missing authorization header", "",
                            UploadCors))
       ELSE /\ pc' = [pc EXCEPT ![r] = "parsing"]
            /\ req' = [req EXCEPT ![r] = q]
            /\ handledBy' = [handledBy EXCEPT ![r] = "upload"]
            /\ UNCHANGED res
    /\ UNCHANGED <<outbound, outcome, fsVars>>

\* form.parse(req) reads the body: every file part is written to the temp
\* directory, also a part under another field and the part that makes the
\* parse fail (larger than maxFileSize, or empty with allowEmptyFiles false)
FormidableParse(r) ==
    /\ pc[r] = "parsing"
    /\ LET q == req[r]
           n == q.nFiles
           underFiles == [i \in 1..n |-> TempName(r, i)]
           created == Range(underFiles)
                      \cup (IF q.other THEN {TempName(r, n + 1)} ELSE {})
                      \cup (IF q.bad # "none" THEN {TempName(r, n + 2)}
                            ELSE {})
       IN  /\ fs' = fs \cup created
           /\ staged' = [staged EXCEPT ![r] = created]
           /\ fileArray' = [fileArray EXCEPT ![r] = underFiles]
           /\ parseFailed' = [parseFailed EXCEPT ![r] = q.bad # "none"]
    /\ pc' = [pc EXCEPT ![r] = "parsed"]
    /\ UNCHANGED <<req, res, handledBy, outbound, outcome, touched, attempted,
                   unlinkCount, unlinkErrors, external>>

\* the handler from the settling of form.parse to the await of axios.post:
\* the parse error answer, the 'No files provided' answer, or the read-back
\* of the files into the outbound form and the call to the backend
UploadContinue(r) ==
    /\ pc[r] = "parsed"
    /\ IF parseFailed[r]
       THEN /\ pc' = [pc EXCEPT ![r] = "done"]
            /\ res' = [res EXCEPT ![r] =
                          Response(500, "Failed to parse form data",
                                   RawMessage, UploadCors)]
            /\ UNCHANGED <<outbound, touched>>
       ELSE IF NoFilesField(fileArray[r])
       THEN /\ pc' = [pc EXCEPT ![r] = "done"]
            /\ res' = [res EXCEPT ![r] =
                          Response(400, "No files provided", "", UploadCors)]
            /\ UNCHANGED <<outbound, touched>>
       ELSE LET readable == {f \in Range(fileArray[r]) : f \in fs}
            IN  /\ pc' = [pc EXCEPT ![r] = "await_upload"]
                /\ touched' = [touched EXCEPT ![r] = @ \cup Range(fileArray[r])]
                /\ outbound' = [outbound EXCEPT ![r] =
                       Append(@, OutReq("POST", <<"upload-documents">>,
                                        Absent, req[r].auth,
                                        Cardinality(readable),
                                        FreshMultipart,
                                        FileTypeField(req[r]),
                                        "multipart"))]
                /\ UNCHANGED res
    /\ UNCHANGED <<req, handledBy, outcome, fs, staged, fileArray,
                   parseFailed, attempted, unlinkCount, unlinkErrors,
                   external>>

\* axios.post settles: the cleanup loop of the branch taken, then the answer
UploadSettle(r, o) ==
    /\ pc[r] = "await_upload"
    /\ LET targets == Range(IF o.kind = "ok"
                            THEN SuccessCleanup(fileArray[r])
                            ELSE ErrorCleanup(fileArray[r]))
           tried == {f \in targets : ExistsSync(f, fs)}
           removed == tried \cap fs
       IN  /\ fs' = fs \ removed
           /\ unlinkCount' = [n \in Names |->
                                 IF n \in removed THEN unlinkCount[n] + 1
                                 ELSE unlinkCount[n]]
           /\ unlinkErrors' = unlinkErrors + Cardinality(tried \ fs)
           /\ touched' = [touched EXCEPT ![r] = @ \cup targets]
           /\ attempted' = [attempted EXCEPT ![r] = @ \cup targets]
    /\ Settle(r, o, IF o.kind = "net"
                    THEN Response(500, "Upload failed", RawMessage, UploadCors)
                    ELSE Response(o.status, Relayed, "", UploadCors))
    /\ UNCHANGED <<staged, fileArray, parseFailed, external>>

\* a file of a request in progress disappears without the handler having
\* removed it (the handler provides for it: the read at 426-437 may fail,
\* and the cleanup asks existsSync first); the files of one request are
\* handled alike, so the file that disappears is taken to be its first
ExternalUnlink(f) ==
    /\ f \in fs
    /\ \E r \in Slots : /\ pc[r] \in {"parsed", "await_upload"}
                       /\ fileArray[r] # <<>>
                       /\ f = fileArray[r][1]
    /\ external < MaxExternal
    /\ fs' = fs \ {f}
    /\ external' = external + 1
    /\ UNCHANGED <<pc, req, res, handledBy, outbound, outcome, staged,
                   fileArray, parseFailed, touched, attempted, unlinkCount,
                   unlinkErrors>>

HandlerNext ==
    \/ \E r \in Slots :
          \/ \E q \in HandlerUploadRequests : UploadEnter(r, q)
          \/ FormidableParse(r)
          \/ UploadContinue(r)
          \/ \E o \in UploadOutcomes : UploadSettle(r, o)
    \/ \E f \in Names : ExternalUnlink(f)

HandlerSpec == Init /\ [][HandlerNext]_vars

(* ------------------------ one request, to its end --------------------- *)
\* a single request, taken through the registered stack or handed to the
\* upload handler, with the steps that follow an await sure to happen: the
\* axios calls carry a timeout (56, 273, 450), the proxy a proxyTimeout
\* (185), and the inbound socket a timeout (367-368), so each await settles
OneSlot == {r \in Slots : \A s \in Slots : r <= s}

RequestNext ==
    \/ \E r \in OneSlot :
          \/ \E q \in AppRequests :
                \/ JsonParseError(r, q)
                \/ Preflight(r, q)
                \/ TokenHandler(r, q)
                \/ AnalysisHandler(r, q)
                \/ ApiProxy(r, q)
                \/ Health(r, q)
                \/ NotFound(r, q)
          \/ \E o \in Outcomes :
                \/ TokenSettle(r, o)
                \/ AnalysisSettle(r, o)
          \/ \E o \in ProxyOutcomes : ApiProxySettle(r, o)
          \/ \E q \in HandlerUploadRequests : UploadEnter(r, q)
          \/ FormidableParse(r)
          \/ UploadContinue(r)
          \/ \E o \in UploadOutcomes : UploadSettle(r, o)
    \/ \E f \in Names : ExternalUnlink(f)

AwaitsSettle ==
    \A r \in OneSlot :
        /\ WF_vars(\E o \in Outcomes : TokenSettle(r, o))
        /\ WF_vars(\E o \in Outcomes : AnalysisSettle(r, o))
        /\ WF_vars(\E o \in ProxyOutcomes : ApiProxySettle(r, o))
        /\ WF_vars(FormidableParse(r))
        /\ WF_vars(UploadContinue(r))
        /\ WF_vars(\E o \in UploadOutcomes : UploadSettle(r, o))

RequestSpec == Init /\ [][RequestNext]_vars /\ AwaitsSettle

(* ------------------- the catch blocks, on any error ------------------- *)
\* the error objects a catch block may be given: error.response present or
\* not, with any error.code beside it
ErrorCodes == NetCodes \cup {"ERR_BAD_REQUEST", "ERR_BAD_RESPONSE"}

ErrorShapes ==
    {[kind |-> "err", status |-> st, code |-> c, detail |-> d] :
        st \in {401, 500, 503}, c \in ErrorCodes, d \in BOOLEAN}
    \cup {[kind |-> "net", status |-> 0, code |-> c, detail |-> FALSE] :
            c \in NetCodes}

\* one request in the token or the analysis handler, its backend call
\* rejecting with any of these errors
CatchNext ==
    \E r \in OneSlot :
        \/ \E q \in TokenRequests : TokenHandler(r, q)
        \/ \E q \in AnalysisRequests : AnalysisHandler(r, q)
        \/ \E o \in ErrorShapes :
              \/ TokenSettle(r, o)
              \/ AnalysisSettle(r, o)

CatchSpec == Init /\ [][CatchNext]_vars

(* ============================== claims ================================ *)
IsPost(r, p) == pc[r] # "idle" /\ req[r].method = "POST" /\ req[r].path = p

Forwarded(r) == Len(outbound[r]) >= 1

\* C1: in the upload handler, whenever a request that staged at least one
\* temporary file has been answered, none of the files it staged is left in
\* the temp directory.
C1_NoStagedFileRemains ==
    \A r \in Slots :
        (pc[r] = "done" /\ staged[r] # {}) => staged[r] \cap fs = {}

\* C2: a POST to /api/upload-documents, /api/token or /api/analyze-competitors
\* that reaches route dispatch is handled by its dedicated handler, and the
\* generic proxy handles only requests no dedicated route matches.
C2_DedicatedRouteFirst ==
    \A r \in Slots :
        handledBy[r] \in {"token", "analysis", "upload", "apiProxy"} =>
            /\ IsPost(r, UploadPath) => handledBy[r] = "upload"
            /\ IsPost(r, TokenPath) => handledBy[r] = "token"
            /\ IsPost(r, AnalysisPath) => handledBy[r] = "analysis"

\* C3: every response sent carries Access-Control-Allow-Origin.
C3_AllowOriginAlways ==
    \A r \in Slots : pc[r] = "done" => res[r].cors.acao # ""

FullCors(c) ==
    /\ c.acao = "*"
    /\ {"GET", "POST", "PUT", "DELETE", "OPTIONS"} \subseteq c.methods
    /\ {"Content-Type", "Authorization", "X-Requested-With"}
          \subseteq c.allowHeaders
    /\ c.creds

\* C4: every response sent carries the full CORS header set: origin *,
\* methods including GET/POST/PUT/DELETE/OPTIONS, headers including
\* Content-Type/Authorization/X-Requested-With, credentials true.
C4_FullCorsAlways ==
    \A r \in Slots : pc[r] = "done" => FullCors(res[r].cors)

\* C5: a POST /api/upload-documents without an Authorization header is
\* answered 401, creates no temporary file and causes no outbound request.
C5_UploadNoAuthRejected ==
    \A r \in Slots :
        (IsPost(r, UploadPath) /\ NoHeader(req[r].auth)) =>
            /\ pc[r] = "done" => res[r].status = 401
            /\ staged[r] = {}
            /\ outbound[r] = <<>>

\* C6: once the upload handler has answered a request that carried N >= 1
\* files under `files`, parsed successfully and forwarded to the backend,
\* none of its N temporary files exists, whether the backend call succeeded,
\* returned an error response or failed without a response.
C6_FilesDeletedAfterForward ==
    \A r \in Slots :
        (pc[r] = "done" /\ handledBy[r] = "upload" /\ Forwarded(r)
         /\ req[r].nFiles >= 1 /\ ~parseFailed[r]) =>
            /\ Len(fileArray[r]) = req[r].nFiles
            /\ Range(fileArray[r]) \cap fs = {}

C6_Witness ==
    \E r1, r2 \in Slots :
        /\ pc[r1] = "done" /\ pc[r2] = "done"
        /\ req[r1].nFiles = MaxParts /\ req[r2].nFiles >= 1
        /\ outcome[r1].kind = "ok" /\ outcome[r2].kind = "net"
        /\ \A f \in Range(fileArray[r1]) \cup Range(fileArray[r2]) :
              unlinkCount[f] = 1

\* C7: no temporary file is unlinked more than once, no unlink is attempted
\* on a file that is already gone (so none throws), and the answer of a
\* forwarded upload is the one the backend outcome determines.
C7_UnlinkAtMostOnce ==
    /\ \A n \in Names : unlinkCount[n] <= 1
    /\ unlinkErrors = 0
    /\ \A r \in Slots :
          (pc[r] = "done" /\ handledBy[r] = "upload" /\ Forwarded(r)) =>
              res[r].status = (IF outcome[r].kind = "net" THEN 500
                               ELSE outcome[r].status)

C7_Witness ==
    \E r \in Slots :
        /\ pc[r] = "done" /\ Forwarded(r) /\ external = 1
        /\ \E f, g \in Range(fileArray[r]) :
              unlinkCount[f] = 0 /\ unlinkCount[g] = 1

\* C8: the temporary files staged for two different requests are disjoint,
\* and a request reads and unlinks only files it staged itself.
C8_RequestsOwnTheirFiles ==
    /\ \A r1, r2 \in Slots : r1 # r2 => staged[r1] \cap staged[r2] = {}
    /\ \A r \in Slots : touched[r] \subseteq staged[r]

C8_Witness ==
    \E r1, r2 \in Slots :
        /\ r1 # r2
        /\ pc[r1] = "await_upload" /\ staged[r1] # {} /\ staged[r1] \subseteq fs
        /\ pc[r2] = "done" /\ touched[r2] # {}
        /\ \E f \in touched[r2] : unlinkCount[f] = 1

\* C9: an analysis request whose backend call times out without a response
\* (ECONNABORTED) is answered 504 'Gateway Timeout'; a connection reset is
\* answered 502 and every other failure without a response 500.
C9_AnalysisTimeoutIs504 ==
    \A r \in Slots :
        (pc[r] = "done" /\ handledBy[r] = "analysis"
         /\ outcome[r].kind = "net") =>
            /\ outcome[r].code = "ECONNABORTED" =>
                  res[r].status = 504 /\ res[r].error = "Gateway Timeout"
            /\ outcome[r].code = "ECONNRESET" => res[r].status = 502
            /\ outcome[r].code \notin {"ECONNABORTED", "ECONNRESET"} =>
                  res[r].status = 500

C9_Witness ==
    \E r \in Slots :
        /\ pc[r] = "done" /\ handledBy[r] = "analysis"
        /\ StartsWithBearer(req[r].auth) /\ ~Falsy(req[r].query)
        /\ outcome[r].code = "ECONNABORTED" /\ res[r].status = 504

\* C10: a POST /api/token whose parsed body lacks username or password (or
\* has either empty) is answered 400 'Missing credentials' and makes no
\* outbound request.
C10_MissingCredentials ==
    \A r \in Slots :
        (handledBy[r] = "token"
         /\ (Falsy(ParsedBody(req[r]).username)
             \/ Falsy(ParsedBody(req[r]).password))) =>
            /\ pc[r] = "done"
            /\ res[r].status = 400
            /\ res[r].error = "Missing credentials"
            /\ outbound[r] = <<>>

C10_Witness ==
    \E r \in Slots :
        /\ handledBy[r] = "token" /\ pc[r] = "done"
        /\ req[r].username = "alice" /\ req[r].password = Absent
        /\ req[r].body = "form"
        /\ res[r].status = 400 /\ outbound[r] = <<>>

TokenFailed(r) ==
    pc[r] = "done" /\ handledBy[r] = "token"
    /\ outcome[r].kind \in {"err", "net"}

\* C11: when the backend answers the token exchange with a 2xx response, the
\* answer to POST /api/token has the backend's status and the backend's body.
C11_TokenSuccessRelayed ==
    \A r \in Slots :
        (pc[r] = "done" /\ handledBy[r] = "token" /\ outcome[r].kind = "ok") =>
            /\ res[r].status = outcome[r].status
            /\ res[r].error = Relayed

\* C12: a failed token exchange is answered with the backend's status and its
\* `detail` (or 'Authentication failed') when the backend sent an error
\* response, with 500 and the 'may be overloaded' message on a timeout, with
\* 500 and the 'could not connect' message on a refused connection, and with
\* 500 and the raw error message otherwise.
C12_TokenFailureMapping ==
    \A r \in Slots :
        TokenFailed(r) =>
            LET o == outcome[r] IN
            /\ o.kind = "err" =>
                  /\ res[r].status = o.status
                  /\ res[r].error = (IF o.detail THEN Detail
                                     ELSE "Authentication failed")
            /\ (o.kind = "net" /\ o.code = "ECONNABORTED") =>
                  /\ res[r].status = 500
                  /\ res[r].error =
                        "Request timeout - backend server may be overloaded"
            /\ (o.kind = "net" /\ o.code = "ECONNREFUSED") =>
                  /\ res[r].status = 500
                  /\ res[r].error = "Could not connect to backend server"
            /\ (o.kind = "net"
                /\ o.code \notin {"ECONNABORTED", "ECONNREFUSED"}) =>
                  /\ res[r].status = 500
                  /\ res[r].message = RawMessage
                  /\ res[r].error = "Token request failed"

C12_Witness ==
    \E r1, r2 \in Slots :
        /\ TokenFailed(r1) /\ TokenFailed(r2)
        /\ outcome[r1].code = "ECONNREFUSED"
        /\ res[r1].error = "Could not connect to backend server"
        /\ outcome[r2].kind = "err" /\ res[r2].status = 401
        /\ res[r2].error = Detail

\* C13: a POST /api/analyze-competitors whose Authorization header is absent
\* or is not a Bearer value is answered 401 and makes no outbound request,
\* whatever its query parameter.
C13_AnalysisUnauthorized ==
    \A r \in Slots :
        (handledBy[r] = "analysis" /\ req[r].auth # BearerAuth) =>
            /\ pc[r] = "done"
            /\ res[r].status = 401
            /\ outbound[r] = <<>>

C13_Witness ==
    \E r1, r2 \in Slots :
        /\ handledBy[r1] = "analysis" /\ handledBy[r2] = "analysis"
        /\ req[r1].auth = BasicAuth /\ req[r1].query = "q1"
        /\ req[r2].auth = NoAuth /\ req[r2].query = Absent
        /\ res[r1].status = 401 /\ res[r2].status = 401

\* C14: a POST /api/analyze-competitors with a Bearer Authorization header
\* and a missing or empty query parameter is answered 400 and makes no
\* outbound request.
C14_AnalysisMissingQuery ==
    \A r \in Slots :
        (handledBy[r] = "analysis" /\ req[r].auth = BearerAuth
         /\ req[r].query \in {Absent, ""}) =>
            /\ pc[r] = "done"
            /\ res[r].status = 400
            /\ outbound[r] = <<>>

C14_Witness ==
    \E r1, r2 \in Slots :
        /\ handledBy[r1] = "analysis" /\ handledBy[r2] = "analysis"
        /\ req[r1].auth = BearerAuth /\ req[r2].auth = BearerAuth
        /\ req[r1].query = "" /\ req[r2].query = Absent
        /\ res[r1].status = 400 /\ res[r2].status = 400

\* C15: when the analysis backend call fails other than by timeout, an error
\* response is answered with the backend's status, error 'Analysis Failed'
\* and the backend's `detail` as message when present; a connection reset
\* without response is answered 502 'Bad Gateway'; every other failure 500.
C15_AnalysisFailureMapping ==
    \A r \in Slots :
        (pc[r] = "done" /\ handledBy[r] = "analysis"
         /\ outcome[r].kind \in {"err", "net"}
         /\ ~(outcome[r].kind = "net" /\ outcome[r].code = "ECONNABORTED")) =>
            LET o == outcome[r] IN
            /\ o.kind = "err" =>
                  /\ res[r].status = o.status
                  /\ res[r].error = "Analysis Failed"
                  /\ o.detail => res[r].message = Detail
            /\ (o.kind = "net" /\ o.code = "ECONNRESET") =>
                  res[r].status = 502 /\ res[r].error = "Bad Gateway"
            /\ (o.kind = "net" /\ o.code # "ECONNRESET") =>
                  res[r].status = 500

C15_Witness ==
    \E r1, r2 \in Slots :
        /\ pc[r1] = "done" /\ handledBy[r1] = "analysis"
        /\ pc[r2] = "done" /\ handledBy[r2] = "analysis"
        /\ outcome[r1].code = "ECONNRESET" /\ res[r1].status = 502
        /\ outcome[r2].kind = "err" /\ res[r2].message = Detail

\* an upload request the handler has parsed (the Authorization check passed
\* and form.parse has settled)
UploadParsed(r) ==
    handledBy[r] = "upload" /\ pc[r] \in {"parsed", "await_upload", "done"}

UploadAnswered(r) == handledBy[r] = "upload" /\ pc[r] = "done"

\* C16: once the upload handler has gone on after a successful parse that
\* found no file under `files`, the request is answered 400 'No files
\* provided' and no outbound request is made.
C16_NoFilesProvided ==
    \A r \in Slots :
        (UploadParsed(r) /\ pc[r] # "parsed" /\ ~parseFailed[r]
         /\ req[r].nFiles = 0) =>
            /\ pc[r] = "done"
            /\ res[r].status = 400
            /\ res[r].error = "No files provided"
            /\ outbound[r] = <<>>

C16_Witness ==
    \E r1, r2 \in Slots :
        /\ UploadAnswered(r1) /\ UploadAnswered(r2)
        /\ req[r1].nFiles = 0 /\ req[r1].other /\ staged[r1] # {}
        /\ req[r2].nFiles = 0 /\ ~req[r2].other /\ ~NoHeader(req[r2].auth)
        /\ res[r1].status = 400 /\ res[r2].status = 400

\* C17: an upload request with a part over the size ceiling, or an empty
\* file, is answered with a 4xx status and is never forwarded to the backend.
C17_InvalidPartRejected4xx ==
    \A r \in Slots :
        (UploadAnswered(r) /\ ~NoHeader(req[r].auth)
         /\ req[r].bad \in {"huge", "empty"}) =>
            /\ res[r].status >= 400 /\ res[r].status <= 499
            /\ outbound[r] = <<>>

\* C18: the outbound request of an upload goes to /upload-documents with a
\* newly generated multipart Content-Type that is not the inbound one, with
\* every file of the request, with file_type (the inbound value, or
\* 'competitor'), and with the inbound Authorization header.
C18_UploadReencoded ==
    \A r \in Slots :
        (IsPost(r, UploadPath) /\ Forwarded(r)) =>
            LET out == outbound[r][1] IN
            /\ out.path = <<"upload-documents">>
            /\ out.ctype = FreshMultipart
            /\ out.ctype # ContentType(req[r])
            /\ out.nFiles = req[r].nFiles
            /\ out.fileType = (IF req[r].fileType = Absent THEN "competitor"
                               ELSE req[r].fileType)
            /\ out.auth = req[r].auth

NetFailed(r) == UploadAnswered(r) /\ Forwarded(r) /\ outcome[r].kind = "net"

\* C19: a forwarded upload is answered with the backend's status and body on
\* a backend response (success or error); on a failure without response it
\* is answered 500 with a message of the failure's category, so that
\* ECONNRESET, ECONNREFUSED and ETIMEDOUT are answered with different
\* messages.
C19_UploadRelayAndCategories ==
    /\ \A r \in Slots :
          (UploadAnswered(r) /\ Forwarded(r)) =>
              IF outcome[r].kind = "net" THEN res[r].status = 500
              ELSE res[r].status = outcome[r].status /\ res[r].error = Relayed
    /\ \A r1, r2 \in Slots :
          (NetFailed(r1) /\ NetFailed(r2)
           /\ outcome[r1].code # outcome[r2].code) =>
              <<res[r1].error, res[r1].message>>
                 # <<res[r2].error, res[r2].message>>

\* C20: when an upload request has been answered, a cleanup loop has gone
\* through every file the request staged, and the answer of a forwarded
\* request is the one its backend outcome determines.
C20_CleanupAttemptedBeforeAnswer ==
    \A r \in Slots :
        UploadAnswered(r) =>
            /\ staged[r] \subseteq attempted[r]
            /\ Forwarded(r) =>
                  res[r].status = (IF outcome[r].kind = "net" THEN 500
                                   ELSE outcome[r].status)

\* a request a dedicated route is registered for
DedicatedRoute(q) ==
    q.method = "POST" /\ q.path \in {TokenPath, AnalysisPath, UploadPath}

GenericForwarded(r) ==
    handledBy[r] = "apiProxy" /\ ~DedicatedRoute(req[r]) /\ Forwarded(r)

\* C21: a request under /api that no dedicated route matches and the generic
\* proxy forwards goes out with exactly the leading /api segment removed
\* from its path, the rest of the path, the query string and the method
\* unchanged, and, when it has an Authorization header, that same value.
C21_GenericForwardRewrite ==
    \A r \in Slots :
        GenericForwarded(r) =>
            LET q == req[r]
                out == outbound[r][1]
            IN  /\ q.path[1] = "api"
                /\ out.path = SubSeq(q.path, 2, Len(q.path))
                /\ out.query = q.query
                /\ out.method = q.method
                /\ ~NoHeader(q.auth) => out.auth = q.auth

C21_Witness ==
    \E r1, r2 \in Slots :
        /\ GenericForwarded(r1) /\ GenericForwarded(r2)
        /\ req[r1].path = GenericPath /\ req[r1].query = "x=1"
        /\ req[r1].auth = BearerAuth
        /\ outbound[r1][1].path = <<"foo", "bar">>
        /\ outbound[r1][1].query = "x=1"
        /\ req[r2].path = NestedPath
        /\ outbound[r2][1].path = <<"api", "v1">>

\* C22: for every request the generic proxy handles, the body sent to the
\* backend is the body received from the client, whatever its type (JSON,
\* form-urlencoded, multipart, none).
C22_BodyForwardedUnchanged ==
    \A r \in Slots :
        (handledBy[r] = "apiProxy" /\ Forwarded(r)) =>
            outbound[r][1].body = req[r].body

ProxyFailed(r) ==
    pc[r] = "done" /\ handledBy[r] = "apiProxy" /\ outcome[r].kind = "net"

InHandler(r) == handledBy[r] \in {"token", "analysis", "upload"}

\* the body sent is an object the proxy built, with an `error` field (a
\* relayed body is the backend's own, whatever its fields)
HasErrorField(response) == response.error \notin {"", Relayed}

\* once a request is answered, its answer stays: no second response
AnsweredOnce ==
    \A r \in Slots :
        pc[r] = "done" => (pc'[r] = "done" /\ res'[r] = res[r])

HandlerAlwaysAnswers ==
    \A r \in OneSlot :
        (InHandler(r) /\ pc[r] # "idle")
            ~> (pc[r] = "done" /\ res[r].status # 0)

C25_AtMostOneOutbound ==
    \A r \in Slots :
        /\ Len(outbound[r]) <= 1
        /\ (pc[r] = "done" /\ outcome[r].kind \in {"err", "net"}) =>
              /\ Len(outbound[r]) = 1
              /\ res[r].status >= 400
              /\ outcome[r].kind = "net" => res[r].status >= 500

C25_Witness ==
    \E r \in Slots :
        /\ pc[r] = "done" /\ handledBy[r] = "analysis"
        /\ outcome[r].code = "ECONNRESET"
        /\ Len(outbound[r]) = 1 /\ res[r].status = 502

\* C26: every OPTIONS request, on any path, is answered by the CORS layer
\* with the CORS headers and an empty body, reaches no route handler and
\* causes no outbound request.
C26_OptionsAnsweredByCors ==
    \A r \in Slots :
        (pc[r] # "idle" /\ req[r].method = "OPTIONS") =>
            /\ handledBy[r] = "cors"
            /\ FullCors(res[r].cors)
            /\ res[r].error = "" /\ res[r].message = ""
            /\ outbound[r] = <<>>

IsHealth(r) ==
    pc[r] # "idle" /\ req[r].method = "GET" /\ req[r].path = HealthPath

\* C27: GET /health is answered 200 with status 'ok' and the configured
\* backend as target, and makes no outbound request, whatever the backend
\* does to the other requests in flight.
C27_HealthIsLocal ==
    \A r \in Slots :
        IsHealth(r) =>
            /\ pc[r] = "done" /\ handledBy[r] = "health"
            /\ res[r].status = 200
            /\ res[r].message.status = "ok"
            /\ res[r].message.target = Target
            /\ outbound[r] = <<>>
            /\ outcome[r] = NoOutcome

C27_Witness ==
    \E r1, r2 \in Slots :
        /\ IsHealth(r1) /\ res[r1].status = 200
        /\ pc[r2] = "done" /\ outcome[r2].code = "ECONNREFUSED"

\* an upload request that went past the parse with files under `files`
ReadBackDone(r) ==
    /\ handledBy[r] = "upload" /\ pc[r] \in {"await_upload", "done"}
    /\ ~parseFailed[r] /\ fileArray[r] # <<>>

\* C28: in the upload handler, a request whose staged files were read back
\* is either forwarded with every one of them, or (a file could not be
\* read) not forwarded at all and answered 500 after a cleanup loop has
\* gone through its files.
C28_ReadFailureIs500 ==
    \A r \in Slots :
        ReadBackDone(r) =>
            IF Forwarded(r)
            THEN outbound[r][1].nFiles = Len(fileArray[r])
            ELSE pc[r] = "done" =>
                    /\ res[r].status = 500
                    /\ Range(fileArray[r]) \subseteq attempted[r]

\* a request on a generic /api route that has no Authorization header, is
\* not a preflight, and whose body the parsers accept
GenericNoAuth(r) ==
    /\ pc[r] # "idle"
    /\ UnderApi(req[r].path) /\ ~DedicatedRoute(req[r])
    /\ req[r].method # "OPTIONS"
    /\ NoHeader(req[r].auth)
    /\ req[r].body # "badjson"

\* C29: a request on a generic /api route without an Authorization header
\* is forwarded all the same: it is taken by the generic proxy, its
\* outbound request has no Authorization header, and its answer is the
\* backend's, or 'Proxy Error' when the call fails, never a local rejection.
C29_NoAuthStillForwarded ==
    \A r \in Slots :
        GenericNoAuth(r) =>
            /\ handledBy[r] = "apiProxy"
            /\ Len(outbound[r]) = 1
            /\ NoHeader(outbound[r][1].auth)
            /\ pc[r] = "done" =>
                  IF outcome[r].kind = "net"
                  THEN res[r].error = "Proxy Error"
                  ELSE res[r].status = outcome[r].status
                       /\ res[r].error = Relayed

C29_Witness ==
    \E r1, r2 \in Slots :
        /\ GenericNoAuth(r1) /\ GenericNoAuth(r2)
        /\ req[r1].method = "GET" /\ pc[r1] = "done"
        /\ outcome[r1].status = 200 /\ res[r1].status = 200
        /\ req[r2].method = "POST" /\ pc[r2] = "done"
        /\ outcome[r2].status = 401 /\ res[r2].status = 401

CallFailed(r) ==
    pc[r] = "done" /\ handledBy[r] \in {"token", "analysis"}
    /\ outcome[r].kind \in {"err", "net"}

\* C30: in the token and analysis handlers, a failed call that carries a
\* backend response is answered with the backend's status whatever the
\* error's code is; the statuses chosen by code (504, 502, 500) are used
\* only when the error carries no response.
C30_ResponseBeforeCode ==
    \A r \in Slots :
        CallFailed(r) =>
            LET o == outcome[r] IN
            IF o.kind = "err"
            THEN /\ res[r].status = o.status
                 /\ res[r].error \notin {"Gateway Timeout", "Bad Gateway",
                      "Request timeout - backend server may be overloaded",
                      "Could not connect to backend server"}
            ELSE res[r].status =
                    (IF handledBy[r] = "token" THEN 500
                     ELSE IF o.code = "ECONNABORTED" THEN 504
                     ELSE IF o.code = "ECONNRESET" THEN 502
                     ELSE 500)

C30_Witness ==
    \E r \in Slots :
        /\ CallFailed(r) /\ handledBy[r] = "analysis"
        /\ outcome[r].kind = "err" /\ outcome[r].code = "ECONNABORTED"
        /\ outcome[r].status = 503 /\ res[r].status = 503

====
